---- MODULE Spec2Model ----
(***************************************************************************)
(* PantryBot: the tool-calling orchestration loop of                       *)
(* claude_chat_handler.call_claude_with_tools, driven by the /chat handler *)
(* and by the OpenAI-compatible handler of mcp_http_bridge, with the tool  *)
(* executor execute_tool, the in-memory conversation store                 *)
(* `conversations`, and the mutating inventory tools of pantry_tools.      *)
(*                                                                         *)
(* The remote model (client.messages.create) and the tool back ends are    *)
(* the environment: a model call raises, or returns some content (a        *)
(* sequence of text and tool_use blocks) with some stop_reason, both       *)
(* chosen freely; a request to the inventory is answered or fails.         *)
(*                                                                         *)
(* Spec          one /chat request                                         *)
(* SpecConc      two /chat requests served by one event loop               *)
(* SpecOpenAI    one /v1/chat/completions request                          *)
(* SpecExec      one POST /tools/execute                                   *)
(* SpecInventory one call of consume_stock, add_stock or                   *)
(*               add_to_shopping_list                                      *)
(* SpecSearch    one call of search_recipes_by_ingredients                 *)
(* SpecRecipes   calls of save_recipe and get_recipe on RECIPE_DIR         *)
(***************************************************************************)
EXTENDS Integers, Sequences, FiniteSets, TLC

(* ----------------------------- bounds ---------------------------------- *)

\* longest content (number of blocks) of one model turn
MaxBlocks == 2

\* how many model calls of one run may differ from the two nominal ones (a
\* turn of one routed tool with stop_reason "tool_use"; a turn of one text
\* with "end_turn"): any other content and stop_reason, or a failed call
MaxOdd == 1

\* how many turns with stop_reason "tool_use" the model returns in a run of
\* two concurrent requests
MaxConcToolTurns == 2

\* most ingredients a recipe of the source uses, and most it misses
MaxCount == 2

\* most recipes the source returns for one search
MaxRecipes == 3

(* ------------------------- program constants --------------------------- *)

\* claude_chat_handler.py:229
max_iterations == 10

\* claude_chat_handler.py:309
APOLOGY == <<"I apologize, but I encountered an issue processing your request. Please try again.">>

\* mcp_http_bridge.py:200
DEFAULT_ID == "default"

\* the tool names execute_tool routes (mcp_http_bridge.py:106-145)
RoutedTools ==
    {"get_pantry_items", "save_recipe", "get_recipe", "list_recipes",
     "get_product_info", "search_recipes_by_ingredients", "get_recipe_details",
     "consume_stock", "add_stock", "add_to_shopping_list", "get_shopping_list"}

(* --------------------------- input sets -------------------------------- *)

\* the HTTP request of the runs with one client
Reqs == {"r1"}

\* the HTTP requests of the runs with two clients
AllReqs == {"r1", "r2"}

\* ChatRequest.conversation_id: omitted (None) or a caller-chosen id
NoId == "None"
RequestIds == {NoId, "c1"}

\* ChatRequest.message, as a sequence of tokens
UserTexts == {<<"hi">>}

\* the kinds of block a model turn is made of: a text block, a tool_use of a
\* tool execute_tool routes, a tool_use of a name it does not route
BlockKinds == {"text", "tool", "unknown_tool"}

StopReasons == {"tool_use", "end_turn", "max_tokens"}

\* the text of the text block at position i of a turn
TextAt(i) == <<ToString(i)>>

ToolNameOf(kind) ==
    IF kind = "tool" THEN "get_pantry_items" ELSE "make_coffee"

Shapes == UNION {[1..n -> BlockKinds] : n \in 0..MaxBlocks}

IsToolKind(k) == k # "text"

RECURSIVE ToolsBefore(_, _)
\* the number of tool_use blocks of shape sh at the positions before i
ToolsBefore(sh, i) ==
    IF i <= 1 THEN 0
    ELSE ToolsBefore(sh, i - 1) + (IF IsToolKind(sh[i - 1]) THEN 1 ELSE 0)

\* the content of a model turn of shape sh; the API gives every tool_use block
\* a fresh id
ContentOf(sh, firstId) ==
    [i \in 1..Len(sh) |->
        IF sh[i] = "text"
        THEN [type |-> "text", text |-> TextAt(i)]
        ELSE [type |-> "tool_use", id |-> firstId + ToolsBefore(sh, i),
              name |-> ToolNameOf(sh[i])]]

IsNominal(sh, stop) ==
    \/ sh = <<"tool">> /\ stop = "tool_use"
    \/ sh = <<"text">> /\ stop = "end_turn"

(* ------------------------------ state ---------------------------------- *)

VARIABLES
    conversations,     \* mcp_http_bridge.conversations: id -> list of messages
    pc,                \* where each request's handler is
    conv_id,           \* chat: conv_id
    iteration,         \* call_claude_with_tools: the for loop's counter
    tool_used,         \* call_claude_with_tools: tool_used
    response,          \* call_claude_with_tools: the model's last turn
    blk,               \* index of the block the inner for loop is at
    assistant_content, \* call_claude_with_tools: assistant_content
    tool_results,      \* call_claude_with_tools: tool_results
    result,            \* the dict call_claude_with_tools returned
    http,              \* the JSON body the handler answered with
    turns,             \* history: the turns the model returned in this run
    executed,          \* history: the tool_use ids handed to execute_tool
    nextId,            \* the next fresh tool_use id of the API
    odd,               \* number of non-nominal turns so far
    exc,               \* the exception that left the loop, if any
    endpoint,          \* which handler serves the request
    request,           \* the body of the request
    local,             \* openai_chat_completions: claude_messages
    before,            \* history: what the store held for the id on arrival
    prompt,            \* history: the messages of the first model call
    tool_request,      \* execute_tool: the ToolRequest of a POST /tools/execute
    tool_response,     \* execute_tool: the call it made, or the error it raised
    grocy,             \* the remote inventory: products, locations, applied writes
    inv,               \* the invocation of a mutating tool: its locals and position
    search_result,     \* search_recipes_by_ingredients: the source's answer and the payload
    recipe_dir,        \* RECIPE_DIR: relative path -> content of the file
    recipe_io          \* the last save_recipe and get_recipe calls and their payloads

vars == <<conversations, pc, conv_id, iteration, tool_used, response, blk,
          assistant_content, tool_results, result, http, turns, executed,
          nextId, odd, exc, endpoint, request, local, before, prompt,
          tool_request, tool_response, grocy, inv,
          search_result, recipe_dir, recipe_io>>

\* the state of the recipe tools
recipeVars == <<search_result, recipe_dir, recipe_io>>

\* the state of the tool endpoint and of the tools
toolVars == <<tool_request, tool_response, grocy, inv, recipeVars>>

NoResponse == [content |-> <<>>, stop_reason |-> "none"]
NoResult == [state |-> "none"]
NoHttp == [kind |-> "none"]
NoRequest == [kind |-> "none"]
NoBefore == [known |-> FALSE, transcript |-> <<>>]

(* ----------------------------- messages -------------------------------- *)

\* {"role": role, "content": <a str>}
StrMessage(role, text) ==
    [role |-> role, content |-> [type |-> "str", value |-> text]]

\* {"role": role, "content": <a list of blocks>}
ListMessage(role, blocks) ==
    [role |-> role, content |-> [type |-> "list", items |-> blocks]]

\* the list object the loop works on: chat passes conversations[conv_id]
\* itself, not a copy; openai_chat_completions passes its own claude_messages
messages(r) ==
    IF endpoint[r] = "openai" THEN local[r] ELSE conversations[conv_id[r]]

\* a variant of MessagesAppend: every request writes to the list of the
\* sentinel id
MessagesAppendDefault(r, ms) ==
    [c \in DOMAIN conversations |->
        IF c = DEFAULT_ID THEN conversations[c] \o ms ELSE conversations[c]]

\* a variant of MessagesAppend: the stored list is cut to its latest two
\* messages after the append
MessagesAppendWindow(r, ms) ==
    [conversations EXCEPT ![conv_id[r]] =
        LET all == @ \o ms
        IN SubSeq(all, IF Len(all) > 2 THEN Len(all) - 1 ELSE 1, Len(all))]

\* messages.append(m) on that shared list
MessagesAppend(r, ms) ==
    [conversations EXCEPT ![conv_id[r]] = @ \o ms]

\* a variant of LoopAppend: the loop works on the stored list of the sentinel
\* id whichever handler called it
LoopAppendStored(r, ms) ==
    /\ conversations' = MessagesAppendDefault(r, ms)
    /\ UNCHANGED local

\* messages.append(m) in call_claude_with_tools: on the stored list for
\* chat, on the handler's own list for openai_chat_completions
LoopAppend(r, ms) ==
    IF endpoint[r] = "openai"
    THEN /\ local' = [local EXCEPT ![r] = @ \o ms]
         /\ UNCHANGED conversations
    ELSE /\ conversations' = MessagesAppend(r, ms)
         /\ UNCHANGED local

RECURSIVE ResponseText(_)
\* the concatenation of the text blocks of a content, in order
ResponseText(content) ==
    IF content = <<>> THEN <<>>
    ELSE (IF Head(content).type = "text" THEN Head(content).text ELSE <<>>)
         \o ResponseText(Tail(content))

(* -------------------- tool endpoint and inventory ---------------------- *)

\* the handlers' variables
chatVars == <<conversations, pc, conv_id, iteration, tool_used, response, blk,
              assistant_content, tool_results, result, http, turns, executed,
              nextId, odd, exc, endpoint, request, local, before, prompt>>

\* no POST /tools/execute has arrived, execute_tool has not answered
NoToolRequest == [tool |-> "none"]
NoToolResponse == [status |-> "none"]

\* no mutating tool runs
NoInvocation == [at |-> "idle"]

\* no recipe search has run; no recipe was saved or read
NoSearchResult == [state |-> "none"]
NoRecipeIO == [saved |-> [state |-> "none"], got |-> [state |-> "none"]]

\* product and location names, as the sequences of their characters
Salmon == <<"S", "a", "l", "m", "o", "n">>
CannedSalmon == <<"C", "a", "n", "n", "e", "d", " ", "S", "a", "l", "m", "o", "n">>
Pantry == <<"P", "a", "n", "t", "r", "y">>

\* the inventory the family keeps: two products, the location "Pantry",
\* and no write applied yet
StockedInventory ==
    [products |-> <<Salmon, CannedSalmon>>, locations |-> <<Pantry>>, applied |-> <<>>]

(* ------------------------------- Init ---------------------------------- *)

\* no request has arrived yet
NoRequestYet ==
    /\ pc = [r \in AllReqs |-> "idle"]
    /\ conv_id = [r \in AllReqs |-> DEFAULT_ID]
    /\ iteration = [r \in AllReqs |-> 0]
    /\ tool_used = [r \in AllReqs |-> FALSE]
    /\ response = [r \in AllReqs |-> NoResponse]
    /\ blk = [r \in AllReqs |-> 1]
    /\ assistant_content = [r \in AllReqs |-> <<>>]
    /\ tool_results = [r \in AllReqs |-> <<>>]
    /\ result = [r \in AllReqs |-> NoResult]
    /\ http = [r \in AllReqs |-> NoHttp]
    /\ turns = [r \in AllReqs |-> <<>>]
    /\ executed = <<>>
    /\ nextId = 1
    /\ odd = 0
    /\ exc = [r \in AllReqs |-> "none"]
    /\ endpoint = [r \in AllReqs |-> "none"]
    /\ request = [r \in AllReqs |-> NoRequest]
    /\ local = [r \in AllReqs |-> <<>>]
    /\ before = [r \in AllReqs |-> NoBefore]
    /\ prompt = [r \in AllReqs |-> <<>>]
    /\ tool_request = NoToolRequest
    /\ tool_response = NoToolResponse
    /\ inv = NoInvocation
    /\ search_result = NoSearchResult
    /\ recipe_dir = [path \in {} |-> <<>>]
    /\ recipe_io = NoRecipeIO

\* the process has just started: conversations = {}
Init ==
    /\ conversations = [c \in {} |-> <<>>]
    /\ NoRequestYet
    /\ grocy = StockedInventory

(* --------------------------- tool executor ----------------------------- *)

\* the remote inventory of this scenario answers every second call: the
\* calls made for the tool_use blocks with an odd id succeed, the others meet
\* a network failure
BackEndAnswers(block) == block.id % 2 = 1

\* get_pantry_items: the condensed stock, or, as every tool function catches
\* its own exceptions, the payload {"success": False, "error": ...}
ToolPayload(name, answered) ==
    IF answered
    THEN [success |-> TRUE, tool |-> name]
    ELSE [success |-> FALSE, error |-> "Failed to fetch pantry items"]

\* execute_tool: a chain of equality tests on the tool name; a name that no
\* branch matches raises HTTPException(400, "Unknown tool: <name>")
execute_tool(name, answered) ==
    IF name \in RoutedTools
    THEN [raises |-> FALSE, value |-> ToolPayload(name, answered)]
    ELSE [raises |-> TRUE, detail |-> <<"Unknown tool", name>>]

\* the tool_result block built for a tool_use block and its result
ToolResultBlock(block, value) ==
    [type |-> "tool_result", tool_use_id |-> block.id, content |-> value]

\* a variant of AddResult: the newest result is put first
AddResultFirst(results, x) == <<x>> \o results

\* tool_results.append(x)
AddResult(results, x) == Append(results, x)

(* ------------------------------ actions -------------------------------- *)

CurrentBlock(r) == response[r].content[blk[r]]

\* a variant of ChatRequest: the handler starts every request on a fresh
\* list, whatever the store holds for the id
ChatRequestFresh(r, rid, msg) ==
    /\ pc[r] = "idle"
    /\ LET cid == IF rid = NoId THEN DEFAULT_ID ELSE rid
           old == IF cid \in DOMAIN conversations THEN conversations[cid] ELSE <<>>
       IN /\ conversations' =
                 [c \in DOMAIN conversations \cup {cid} |->
                     IF c = cid THEN <<StrMessage("user", msg)>>
                     ELSE conversations[c]]
          /\ conv_id' = [conv_id EXCEPT ![r] = cid]
          /\ before' = [before EXCEPT ![r] =
                           [known |-> cid \in DOMAIN conversations, transcript |-> old]]
    /\ endpoint' = [endpoint EXCEPT ![r] = "chat"]
    /\ request' = [request EXCEPT ![r] =
                      [kind |-> "chat", message |-> msg, conversation_id |-> rid]]
    /\ iteration' = [iteration EXCEPT ![r] = 0]
    /\ tool_used' = [tool_used EXCEPT ![r] = FALSE]
    /\ pc' = [pc EXCEPT ![r] = "call_model"]
    /\ UNCHANGED <<response, blk, assistant_content, tool_results, result, http,
                   turns, executed, nextId, odd, exc>>
    /\ UNCHANGED <<local, prompt>>
    /\ UNCHANGED toolVars

\* chat, up to the call of call_claude_with_tools, and that function's first
\* lines: the user message is appended to the stored list
ChatRequest(r, rid, msg) ==
    /\ pc[r] = "idle"
    /\ LET cid == IF rid = NoId THEN DEFAULT_ID ELSE rid
           old == IF cid \in DOMAIN conversations THEN conversations[cid] ELSE <<>>
       IN /\ conversations' =
                 [c \in DOMAIN conversations \cup {cid} |->
                     IF c = cid THEN Append(old, StrMessage("user", msg))
                     ELSE conversations[c]]
          /\ conv_id' = [conv_id EXCEPT ![r] = cid]
          /\ before' = [before EXCEPT ![r] =
                           [known |-> cid \in DOMAIN conversations, transcript |-> old]]
    /\ endpoint' = [endpoint EXCEPT ![r] = "chat"]
    /\ request' = [request EXCEPT ![r] =
                      [kind |-> "chat", message |-> msg, conversation_id |-> rid]]
    /\ iteration' = [iteration EXCEPT ![r] = 0]
    /\ tool_used' = [tool_used EXCEPT ![r] = FALSE]
    /\ pc' = [pc EXCEPT ![r] = "call_model"]
    /\ UNCHANGED <<response, blk, assistant_content, tool_results, result, http,
                   turns, executed, nextId, odd, exc>>
    /\ UNCHANGED <<local, prompt>>
    /\ UNCHANGED toolVars

\* the loop's head: one more iteration, client.messages.create answers
CallModel(r) ==
    /\ pc[r] = "call_model"
    /\ iteration[r] < max_iterations
    /\ \E sh \in Shapes, stop \in StopReasons :
          LET cost == IF IsNominal(sh, stop) THEN 0 ELSE 1
              turn == [content |-> ContentOf(sh, nextId), stop_reason |-> stop]
          IN /\ odd + cost <= MaxOdd
             /\ odd' = odd + cost
             /\ response' = [response EXCEPT ![r] = turn]
             /\ turns' = [turns EXCEPT ![r] = Append(@, turn)]
             /\ nextId' = nextId + ToolsBefore(sh, Len(sh) + 1)
    /\ pc' = [pc EXCEPT ![r] = "dispatch"]
    /\ UNCHANGED <<conversations, conv_id, iteration, tool_used, blk,
                   assistant_content, tool_results, result, http, executed, exc>>
    /\ prompt' = [prompt EXCEPT ![r] = IF iteration[r] = 0 THEN messages(r) ELSE @]
    /\ UNCHANGED <<endpoint, request, local, before>>
    /\ UNCHANGED toolVars

\* the loop's head when the model API cannot be reached or answers with an
\* error: client.messages.create raises
CallModelRaises(r) ==
    /\ pc[r] = "call_model"
    /\ iteration[r] < max_iterations
    /\ odd + 1 <= MaxOdd
    /\ odd' = odd + 1
    /\ exc' = [exc EXCEPT ![r] = "APIError"]
    /\ pc' = [pc EXCEPT ![r] = "raised"]
    /\ UNCHANGED <<conversations, conv_id, iteration, tool_used, response, blk,
                   assistant_content, tool_results, result, http, turns,
                   executed, nextId>>
    /\ prompt' = [prompt EXCEPT ![r] = IF iteration[r] = 0 THEN messages(r) ELSE @]
    /\ UNCHANGED <<endpoint, request, local, before>>
    /\ UNCHANGED toolVars

\* the test the loop ends on
IsFinalTurn(turn) == turn.stop_reason # "tool_use"

\* "If no tool use, we're done"
FinalAnswer(r) ==
    /\ pc[r] = "dispatch"
    /\ IsFinalTurn(response[r])
    /\ LET response_text == ResponseText(response[r].content)
       IN /\ LoopAppend(r, <<StrMessage("assistant", response_text)>>)
          /\ result' = [result EXCEPT ![r] =
                           [state |-> "DONE", response |-> response_text,
                            tool_used |-> tool_used[r]]]
    /\ pc' = [pc EXCEPT ![r] = "returned"]
    /\ UNCHANGED <<conv_id, iteration, tool_used, response, blk, assistant_content,
                   tool_results, http, turns, executed, nextId, odd, exc>>
    /\ UNCHANGED <<endpoint, request, before, prompt>>
    /\ UNCHANGED toolVars

\* "Handle tool use"
BeginToolRound(r) ==
    /\ pc[r] = "dispatch"
    /\ ~IsFinalTurn(response[r])
    /\ tool_used' = [tool_used EXCEPT ![r] = TRUE]
    /\ assistant_content' = [assistant_content EXCEPT ![r] = <<>>]
    /\ tool_results' = [tool_results EXCEPT ![r] = <<>>]
    /\ blk' = [blk EXCEPT ![r] = 1]
    /\ pc' = [pc EXCEPT ![r] = "blocks"]
    /\ UNCHANGED <<conversations, conv_id, iteration, response, result, http,
                   turns, executed, nextId, odd, exc>>
    /\ UNCHANGED <<endpoint, request, local, before, prompt>>
    /\ UNCHANGED toolVars

\* the inner for loop at a text block
TextBlock(r) ==
    /\ pc[r] = "blocks"
    /\ blk[r] <= Len(response[r].content)
    /\ CurrentBlock(r).type = "text"
    /\ assistant_content' = [assistant_content EXCEPT ![r] = Append(@, CurrentBlock(r))]
    /\ blk' = [blk EXCEPT ![r] = @ + 1]
    /\ UNCHANGED <<conversations, pc, conv_id, iteration, tool_used, response,
                   tool_results, result, http, turns, executed, nextId, odd, exc>>
    /\ UNCHANGED <<endpoint, request, local, before, prompt>>
    /\ UNCHANGED toolVars

\* the inner for loop at a tool_use block: execute_tool_func is called; an
\* unrouted name raises at once, a routed tool is awaited
CallTool(r) ==
    /\ pc[r] = "blocks"
    /\ blk[r] <= Len(response[r].content)
    /\ CurrentBlock(r).type = "tool_use"
    /\ executed' = Append(executed, CurrentBlock(r).id)
    /\ IF execute_tool(CurrentBlock(r).name, BackEndAnswers(CurrentBlock(r))).raises
       THEN /\ pc' = [pc EXCEPT ![r] = "raised"]
            /\ exc' = [exc EXCEPT ![r] = "HTTPException"]
       ELSE /\ pc' = [pc EXCEPT ![r] = "tool_await"]
            /\ UNCHANGED exc
    /\ UNCHANGED <<conversations, conv_id, iteration, tool_used, response, blk,
                   assistant_content, tool_results, result, http, turns, nextId, odd>>
    /\ UNCHANGED <<endpoint, request, local, before, prompt>>
    /\ UNCHANGED toolVars

\* a variant of ToolReturns: an invocation whose result is a failure payload
\* is tried again instead of being recorded
ToolReturnsRetry(r) ==
    /\ pc[r] = "tool_await"
    /\ LET block == CurrentBlock(r)
           tool_result == execute_tool(block.name, BackEndAnswers(block)).value
       IN IF tool_result.success
          THEN /\ assistant_content' = [assistant_content EXCEPT ![r] = Append(@, block)]
               /\ tool_results' = [tool_results EXCEPT ![r] =
                                      AddResult(@, ToolResultBlock(block, tool_result))]
               /\ blk' = [blk EXCEPT ![r] = @ + 1]
          ELSE UNCHANGED <<assistant_content, tool_results, blk>>
    /\ pc' = [pc EXCEPT ![r] = "blocks"]
    /\ UNCHANGED <<conversations, conv_id, iteration, tool_used, response, result,
                   http, turns, executed, nextId, odd, exc>>
    /\ UNCHANGED <<endpoint, request, local, before, prompt>>
    /\ UNCHANGED toolVars

\* the awaited tool returns: the block and its result are recorded
ToolReturns(r) ==
    /\ pc[r] = "tool_await"
    /\ LET block == CurrentBlock(r)
           tool_result == execute_tool(block.name, BackEndAnswers(block)).value
       IN /\ assistant_content' = [assistant_content EXCEPT ![r] = Append(@, block)]
          /\ tool_results' = [tool_results EXCEPT ![r] =
                                 AddResult(@, ToolResultBlock(block, tool_result))]
    /\ blk' = [blk EXCEPT ![r] = @ + 1]
    /\ pc' = [pc EXCEPT ![r] = "blocks"]
    /\ UNCHANGED <<conversations, conv_id, iteration, tool_used, response, result,
                   http, turns, executed, nextId, odd, exc>>
    /\ UNCHANGED <<endpoint, request, local, before, prompt>>
    /\ UNCHANGED toolVars

\* a variant of EndRound: the tool results message is appended before the
\* assistant message it answers
EndRoundResultsFirst(r) ==
    /\ pc[r] = "blocks"
    /\ blk[r] > Len(response[r].content)
    /\ LoopAppend(r,
           <<ListMessage("user", tool_results[r]),
             ListMessage("assistant", assistant_content[r])>>)
    /\ iteration' = [iteration EXCEPT ![r] = @ + 1]
    /\ pc' = [pc EXCEPT ![r] = "call_model"]
    /\ UNCHANGED <<conv_id, tool_used, response, blk, assistant_content,
                   tool_results, result, http, turns, executed, nextId, odd, exc>>
    /\ UNCHANGED <<endpoint, request, before, prompt>>
    /\ UNCHANGED toolVars

\* after the last block: the assistant message and the tool results message
\* are appended, and the for loop goes to its next iteration
EndRound(r) ==
    /\ pc[r] = "blocks"
    /\ blk[r] > Len(response[r].content)
    /\ LoopAppend(r,
           <<ListMessage("assistant", assistant_content[r]),
             ListMessage("user", tool_results[r])>>)
    /\ iteration' = [iteration EXCEPT ![r] = @ + 1]
    /\ pc' = [pc EXCEPT ![r] = "call_model"]
    /\ UNCHANGED <<conv_id, tool_used, response, blk, assistant_content,
                   tool_results, result, http, turns, executed, nextId, odd, exc>>
    /\ UNCHANGED <<endpoint, request, before, prompt>>
    /\ UNCHANGED toolVars

\* a variant of Exhausted: the loop appends the apology itself, as it
\* appends the final answer
ExhaustedAppends(r) ==
    /\ pc[r] = "call_model"
    /\ iteration[r] >= max_iterations
    /\ LoopAppend(r, <<StrMessage("assistant", APOLOGY)>>)
    /\ result' = [result EXCEPT ![r] =
                     [state |-> "EXHAUSTED", response |-> APOLOGY,
                      tool_used |-> tool_used[r]]]
    /\ pc' = [pc EXCEPT ![r] = "returned"]
    /\ UNCHANGED <<conv_id, iteration, tool_used, response, blk,
                   assistant_content, tool_results, http, turns, executed, nextId, odd, exc>>
    /\ UNCHANGED <<endpoint, request, before, prompt>>
    /\ UNCHANGED toolVars

\* the for loop is over: "If we hit max iterations, return what we have"
Exhausted(r) ==
    /\ pc[r] = "call_model"
    /\ iteration[r] >= max_iterations
    /\ result' = [result EXCEPT ![r] =
                     [state |-> "EXHAUSTED", response |-> APOLOGY,
                      tool_used |-> tool_used[r]]]
    /\ pc' = [pc EXCEPT ![r] = "returned"]
    /\ UNCHANGED <<conversations, conv_id, iteration, tool_used, response, blk,
                   assistant_content, tool_results, http, turns, executed, nextId, odd, exc>>
    /\ UNCHANGED <<endpoint, request, local, before, prompt>>
    /\ UNCHANGED toolVars

\* chat after the loop returned: result["messages"] is the stored list
\* itself, the response is appended to it and the JSON body is returned
ChatReturn(r) ==
    /\ pc[r] = "returned"
    /\ conversations' = MessagesAppend(r, <<StrMessage("assistant", result[r].response)>>)
    /\ http' = [http EXCEPT ![r] =
                   [kind |-> "ok", response |-> result[r].response,
                    tool_used |-> result[r].tool_used, conversation_id |-> conv_id[r]]]
    /\ pc' = [pc EXCEPT ![r] = "replied"]
    /\ UNCHANGED <<conv_id, iteration, tool_used, response, blk, assistant_content,
                   tool_results, result, turns, executed, nextId, odd, exc>>
    /\ UNCHANGED <<endpoint, request, local, before, prompt>>
    /\ UNCHANGED toolVars

\* chat's except Exception: the error body is returned
ChatError(r) ==
    /\ pc[r] = "raised"
    /\ http' = [http EXCEPT ![r] =
                   [kind |-> "error", error |-> <<"Chat failed", exc[r]>>,
                    conversation_id |-> conv_id[r]]]
    /\ pc' = [pc EXCEPT ![r] = "replied"]
    /\ UNCHANGED <<conversations, conv_id, iteration, tool_used, response, blk,
                   assistant_content, tool_results, result, turns, executed, nextId, odd, exc>>
    /\ UNCHANGED <<endpoint, request, local, before, prompt>>
    /\ UNCHANGED toolVars

Next ==
    \E r \in Reqs :
        \/ \E rid \in RequestIds, msg \in UserTexts : ChatRequest(r, rid, msg)
        \/ CallModel(r)
        \/ CallModelRaises(r)
        \/ FinalAnswer(r)
        \/ BeginToolRound(r)
        \/ TextBlock(r)
        \/ CallTool(r)
        \/ ToolReturns(r)
        \/ EndRound(r)
        \/ Exhausted(r)
        \/ ChatReturn(r)
        \/ ChatError(r)

Spec == Init /\ [][Next]_vars

(* ------------------------ notions of the claims ------------------------ *)

IsToolUse(b) == b.type = "tool_use"

\* the tool_use blocks of a content, in emission order
ToolBlocks(content) == SelectSeq(content, IsToolUse)

\* the turn contains at least one tool invocation
HasTool(turn) == ToolBlocks(turn.content) # <<>>

LastTurn(r) == turns[r][Len(turns[r])]

\* call_claude_with_tools is over: it returned or raised
LoopOver(r) == pc[r] \in {"returned", "raised", "replied"}

\* how many times a tool_use id was handed to execute_tool
TimesExecuted(id) == Cardinality({i \in 1..Len(executed) : executed[i] = id})

\* the tool_use ids of the run of request r that were handed to execute_tool
ExecutedBy(r) ==
    {id \in {executed[i] : i \in 1..Len(executed)} :
        \E j \in 1..Len(turns[r]) :
            \E k \in 1..Len(turns[r][j].content) :
                /\ IsToolUse(turns[r][j].content[k])
                /\ turns[r][j].content[k].id = id}

\* the tool_result messages of a transcript, in order
IsResultsMessage(m) == m.role = "user" /\ m.content.type = "list"
ResultsMessages(conv) == SelectSeq(conv, IsResultsMessage)

\* the outcomes of the invocations of a turn, in the order they were requested
OutcomesInOrder(turn) ==
    LET tb == ToolBlocks(turn.content)
    IN [i \in 1..Len(tb) |->
           [type |-> "tool_result", tool_use_id |-> tb[i].id,
            content |-> IF BackEndAnswers(tb[i])
                        THEN [success |-> TRUE, tool |-> tb[i].name]
                        ELSE [success |-> FALSE, error |-> "Failed to fetch pantry items"]]]

(* ------------------------------- claims -------------------------------- *)

\* C1: once the model has returned a turn with no tool invocation, the call
\* is in DONE with that turn's text as its response, after at most ten model
\* calls.
C1_NoToolTurnReachesDone ==
    \A r \in Reqs :
        (/\ turns[r] # <<>>
         /\ ~HasTool(LastTurn(r))
         /\ pc[r] # "dispatch")
        => /\ result[r].state = "DONE"
           /\ result[r].response = ResponseText(LastTurn(r).content)
           /\ Len(turns[r]) <= max_iterations

\* C2: a call in which the model answered every model call and every one of
\* its turns requested at least one tool ends in EXHAUSTED after exactly ten
\* model calls.
C2_AlwaysToolsEndsExhausted ==
    \A r \in Reqs :
        (/\ LoopOver(r)
         /\ exc[r] # "APIError"
         /\ \A j \in 1..Len(turns[r]) : HasTool(turns[r][j]))
        => /\ result[r].state = "EXHAUSTED"
           /\ Len(turns[r]) = max_iterations

\* C3: no tool_use id is handed to the tool executor more than once.
C3_AtMostOnce ==
    \A i, j \in 1..Len(executed) : i # j => executed[i] # executed[j]

\* a run of ten rounds, one of them with two invocations, has ended
C3_Witness ==
    \E r \in Reqs : pc[r] = "replied" /\ Len(executed) > max_iterations

\* C4: when the call is over, every tool invocation of every turn that asked
\* for tools (stop_reason "tool_use") has been handed to the executor exactly
\* once, whatever happened to the invocations before it in its round.
C4_EveryInvocationExecutedOnce ==
    \A r \in Reqs :
        LoopOver(r) =>
            \A j \in 1..Len(turns[r]) :
                turns[r][j].stop_reason = "tool_use" =>
                    \A k \in 1..Len(turns[r][j].content) :
                        IsToolUse(turns[r][j].content[k]) =>
                            TimesExecuted(turns[r][j].content[k].id) = 1

\* C5: the tool_result messages of the transcript are, round by round, the
\* outcomes of that round's invocations, each under the id of its invocation,
\* in the order the model requested them.
C5_ResultsInRequestOrder ==
    \A r \in Reqs :
        pc[r] # "idle" =>
            LET rm == ResultsMessages(messages(r))
            IN /\ Len(rm) = iteration[r]
               /\ \A j \in 1..Len(rm) :
                      rm[j].content.items = OutcomesInOrder(turns[r][j])

\* a round with two invocations, one answered and one failed, was folded back
C5_Witness ==
    \E r \in Reqs :
        /\ iteration[r] >= 1
        /\ \E j \in 1..iteration[r] :
              LET out == OutcomesInOrder(turns[r][j])
              IN /\ Len(out) >= 2
                 /\ out[1].content.success # out[2].content.success

\* C6: the loop ends in DONE only on a turn with no tool invocation.
C6_DoneOnlyWithoutInvocation ==
    \A r \in Reqs :
        result[r].state = "DONE" => ~HasTool(LastTurn(r))

\* C7: when /chat has answered a request that ended in DONE, the final answer
\* is the last message of the stored transcript, it is the only assistant
\* message after the last user-role message, and it is the response.
C7_OneFinalAssistantMessage ==
    \A r \in Reqs :
        (pc[r] = "replied" /\ result[r].state = "DONE") =>
            LET conv == messages(r)
                n == Len(conv)
                answer == ResponseText(LastTurn(r).content)
            IN /\ conv[n] = StrMessage("assistant", answer)
               /\ conv[n - 1].role = "user"
               /\ http[r].kind = "ok"
               /\ http[r].response = answer

\* C8 as claimed: when the loop has returned in EXHAUSTED, the transcript it
\* returns ends with the apology as an assistant message, and the apology is
\* the response.
C8_LoopAppendsApology ==
    \A r \in Reqs :
        (pc[r] = "returned" /\ result[r].state = "EXHAUSTED") =>
            /\ messages(r)[Len(messages(r))] = StrMessage("assistant", APOLOGY)
            /\ result[r].response = APOLOGY

\* C8 as amended: in EXHAUSTED the loop returns the apology as the response
\* without appending it, so the transcript it returns ends with the tool
\* results of the tenth round; it is /chat that appends the apology, as one
\* assistant message that is then the last of the stored transcript.
C8_ChatAppendsApology ==
    \A r \in Reqs :
        result[r].state = "EXHAUSTED" =>
            LET conv == messages(r)
                n == Len(conv)
            IN /\ result[r].response = APOLOGY
               /\ pc[r] = "returned" =>
                      conv[n] = ListMessage("user", OutcomesInOrder(LastTurn(r)))
               /\ pc[r] = "replied" =>
                      /\ conv[n] = StrMessage("assistant", APOLOGY)
                      /\ conv[n - 1] = ListMessage("user", OutcomesInOrder(LastTurn(r)))
                      /\ http[r].kind = "ok"
                      /\ http[r].response = APOLOGY

\* a request that ran out of rounds has been answered
C8_Witness ==
    \E r \in Reqs : pc[r] = "replied" /\ result[r].state = "EXHAUSTED"

\* C9: the tool_used flag a run returns is true exactly when the run handed
\* at least one invocation to the tool executor.
C9_ToolUsedIffExecuted ==
    \A r \in Reqs :
        (pc[r] \in {"returned", "replied"} /\ result[r].state # "none") =>
            (result[r].tool_used <=> ExecutedBy(r) # {})

\* C10: a request whose run handed an unrouted tool name to the executor is
\* not failed by it: nothing is raised into the handler and the body returned
\* is not the error body.
C10_UnknownToolNotSurfaced ==
    \A r \in Reqs :
        (\E j \in 1..Len(turns[r]) :
            \E k \in 1..Len(turns[r][j].content) :
                /\ IsToolUse(turns[r][j].content[k])
                /\ turns[r][j].content[k].name \notin RoutedTools
                /\ TimesExecuted(turns[r][j].content[k].id) > 0)
        => /\ pc[r] # "raised"
           /\ http[r].kind # "error"

(* ------------------- the store and a failed request -------------------- *)

\* what the store holds for the conversation id of request r
Stored(r) ==
    [known |-> conv_id[r] \in DOMAIN conversations,
     transcript |-> IF conv_id[r] \in DOMAIN conversations
                    THEN conversations[conv_id[r]] ELSE <<>>]

\* the /chat request r was answered with the error body before any of its
\* rounds had completed
FailedBeforeAnyRound(r) ==
    /\ pc[r] = "replied"
    /\ endpoint[r] = "chat"
    /\ http[r].kind = "error"
    /\ iteration[r] = 0

\* C11: when a /chat request fails with an exception before any round has
\* completed, the stored transcript of its conversation id is identical to
\* its value before the request: no message of the failed request is stored
C11_FailedRequestLeavesStore ==
    \A r \in Reqs :
        FailedBeforeAnyRound(r) => Stored(r).transcript = before[r].transcript

(* ----------------------- two concurrent requests ----------------------- *)

RECURSIVE CountToolTurns(_)
\* how many turns of a sequence of turns have stop_reason "tool_use"
CountToolTurns(ts) ==
    IF ts = <<>> THEN 0
    ELSE (IF IsFinalTurn(Head(ts)) THEN 0 ELSE 1) + CountToolTurns(Tail(ts))

\* the handler of q runs between two awaits that suspend it: the model call
\* is the synchronous client.messages.create, so a handler yields to the
\* event loop only while it awaits a tool, and when it has answered
Busy(q) == pc[q] \in {"call_model", "dispatch", "blocks", "returned", "raised"}

\* the event loop runs r: no other handler is between two awaits
MayRun(r) == \A q \in AllReqs \ {r} : ~Busy(q)

\* the model's new turn has at most one block
OneBlockTurn(r) == Len(response'[r].content) <= 1

\* the model's answers in the runs of two requests: turns of at most one
\* block, of which at most MaxConcToolTurns have stop_reason "tool_use", so
\* no run gets to the tenth round
ConcTurn(r) ==
    /\ OneBlockTurn(r)
    /\ CountToolTurns(turns'["r1"]) + CountToolTurns(turns'["r2"]) <= MaxConcToolTurns

\* two /chat requests served by one event loop
NextConc ==
    \E r \in AllReqs :
        \/ MayRun(r) /\ \E rid \in RequestIds, msg \in UserTexts : ChatRequest(r, rid, msg)
        \/ MayRun(r) /\ CallModel(r) /\ ConcTurn(r)
        \/ MayRun(r) /\ CallModelRaises(r)
        \/ MayRun(r) /\ FinalAnswer(r)
        \/ MayRun(r) /\ BeginToolRound(r)
        \/ MayRun(r) /\ TextBlock(r)
        \/ MayRun(r) /\ CallTool(r)
        \/ MayRun(r) /\ ToolReturns(r)
        \/ MayRun(r) /\ EndRound(r)
        \/ MayRun(r) /\ ChatReturn(r)
        \/ MayRun(r) /\ ChatError(r)

SpecConc == Init /\ [][NextConc]_vars

RECURSIVE RoundMessages(_, _)
\* the messages the first n rounds of a run append: per round the assistant
\* turn and the message of its tool results
RoundMessages(ts, n) ==
    IF n = 0 THEN <<>>
    ELSE RoundMessages(ts, n - 1)
         \o <<ListMessage("assistant", ts[n].content),
              ListMessage("user", OutcomesInOrder(ts[n]))>>

\* the final messages of request r so far: the answer appended by the loop
\* in DONE, and the response appended by chat
FinalMessages(r) ==
    (IF result[r].state = "DONE"
     THEN <<StrMessage("assistant", result[r].response)>> ELSE <<>>)
    \o (IF pc[r] = "replied" /\ http[r].kind = "ok"
        THEN <<StrMessage("assistant", http[r].response)>> ELSE <<>>)

\* all messages request r has appended so far, in order
OwnMessages(r) ==
    <<StrMessage("user", request[r].message)>>
    \o RoundMessages(turns[r], iteration[r])
    \o FinalMessages(r)

\* C12: when two /chat requests for the same conversation id are in flight
\* at the same time, all messages of one request (its user message, its tool
\* rounds, its final answer) are contiguous in the stored transcript: they
\* follow what the store held when the request arrived, with no message of
\* the other request between them
C12_MessagesContiguous ==
    \A r \in AllReqs :
        endpoint[r] = "chat" =>
            LET n == Len(before[r].transcript)
                own == OwnMessages(r)
            IN /\ Len(messages(r)) >= n + Len(own)
               /\ SubSeq(messages(r), n + 1, n + Len(own)) = own

\* request r took this step
Acts(r) == pc'[r] # pc[r] \/ blk'[r] # blk[r]

\* the step leaves the stored transcript of id c as it is
KeepsTranscript(c) ==
    c \in DOMAIN conversations =>
        c \in DOMAIN conversations' /\ conversations'[c] = conversations[c]

\* C13: under any interleaving of /chat requests, a step of a request for
\* conversation id A never changes the stored transcript of another id B
C13_OtherTranscriptsUntouched ==
    [][\A r \in AllReqs :
          Acts(r) => \A c \in DOMAIN conversations \ {conv_id'[r]} : KeepsTranscript(c)]_vars

\* two requests for distinct ids have both run their loop to the end, one
\* of them while the other was awaiting a tool
C13_Witness ==
    /\ conv_id["r1"] # conv_id["r2"]
    /\ pc["r1"] = "replied" /\ pc["r2"] = "tool_await"
    /\ http["r1"].kind = "ok"
    /\ Len(conversations[conv_id["r1"]]) >= 3
    /\ turns["r2"] # <<>>

\* the first model call of request r has been made
FirstCallMade(r) ==
    endpoint[r] = "chat" /\ (pc[r] \notin {"idle", "call_model"} \/ iteration[r] > 0)

OpenAIMessage(role, text, name) ==
    [role |-> role, content |-> [type |-> "str", value |-> text], name |-> name]

\* the bodies sent to /v1/chat/completions: no messages, only a system
\* entry, one user entry, a system entry then a user entry, and a
\* conversation with system entries among the user and assistant ones
OpenAIBodies ==
    { <<>>,
      <<OpenAIMessage("system", <<"be brief">>, "none")>>,
      <<OpenAIMessage("user", <<"hi">>, "ann")>>,
      <<OpenAIMessage("system", <<"be brief">>, "none"),
        OpenAIMessage("user", <<"hi">>, "ann"),
        OpenAIMessage("assistant", <<"hello">>, "none"),
        OpenAIMessage("system", <<"be kind">>, "none"),
        OpenAIMessage("user", <<"what can I cook">>, "ann")>> }

\* msg["role"] in ["user", "assistant"]
IsUserOrAssistant(msg) == msg.role \in {"user", "assistant"}

RECURSIVE ClaudeMessages(_)
\* the for loop that builds claude_messages: the user and assistant entries
\* in their order, each rebuilt from its role and its content
ClaudeMessages(msgs) ==
    IF msgs = <<>> THEN <<>>
    ELSE (IF IsUserOrAssistant(Head(msgs))
          THEN <<[role |-> Head(msgs).role, content |-> Head(msgs).content]>>
          ELSE <<>>)
         \o ClaudeMessages(Tail(msgs))

\* openai_chat_completions up to the call of call_claude_with_tools
OpenAIRequest(r, msgs) ==
    /\ pc[r] = "idle"
    /\ endpoint' = [endpoint EXCEPT ![r] = "openai"]
    /\ request' = [request EXCEPT ![r] = [kind |-> "openai", messages |-> msgs]]
    /\ IF msgs = <<>>
       THEN /\ http' = [http EXCEPT ![r] =
                           [kind |-> "error", error |-> <<"No messages provided">>]]
            /\ pc' = [pc EXCEPT ![r] = "replied"]
            /\ UNCHANGED local
       ELSE IF ClaudeMessages(msgs) = <<>>
       THEN /\ http' = [http EXCEPT ![r] =
                           [kind |-> "error", error |-> <<"No valid messages found">>]]
            /\ pc' = [pc EXCEPT ![r] = "replied"]
            /\ UNCHANGED local
       ELSE /\ local' = [local EXCEPT ![r] = ClaudeMessages(msgs)]
            /\ pc' = [pc EXCEPT ![r] = "call_model"]
            /\ UNCHANGED http
    /\ iteration' = [iteration EXCEPT ![r] = 0]
    /\ tool_used' = [tool_used EXCEPT ![r] = FALSE]
    /\ UNCHANGED <<conversations, conv_id, response, blk, assistant_content,
                   tool_results, result, turns, executed, nextId, odd, exc,
                   before, prompt>>
    /\ UNCHANGED toolVars

\* openai_chat_completions after the loop returned: the chatcmpl envelope
OpenAIReturn(r) ==
    /\ pc[r] = "returned"
    /\ http' = [http EXCEPT ![r] =
                   [kind |-> "chat.completion", role |-> "assistant",
                    content |-> result[r].response, finish_reason |-> "stop"]]
    /\ pc' = [pc EXCEPT ![r] = "replied"]
    /\ UNCHANGED <<conversations, conv_id, iteration, tool_used, response, blk,
                   assistant_content, tool_results, result, turns, executed,
                   nextId, odd, exc, endpoint, request, local, before, prompt>>
    /\ UNCHANGED toolVars

\* openai_chat_completions' except Exception
OpenAIError(r) ==
    /\ pc[r] = "raised"
    /\ http' = [http EXCEPT ![r] =
                   [kind |-> "error", error |-> <<"Chat failed", exc[r]>>]]
    /\ pc' = [pc EXCEPT ![r] = "replied"]
    /\ UNCHANGED <<conversations, conv_id, iteration, tool_used, response, blk,
                   assistant_content, tool_results, result, turns, executed,
                   nextId, odd, exc, endpoint, request, local, before, prompt>>
    /\ UNCHANGED toolVars

\* what the store may hold when the completion request arrives: nothing,
\* or the transcript of one earlier /chat exchange answered in plain text
PriorStores ==
    { [c \in {} |-> <<>>],
      [c \in {DEFAULT_ID} |->
          <<StrMessage("user", <<"hi">>), StrMessage("assistant", TextAt(1)),
            StrMessage("assistant", TextAt(1))>>] }

InitOpenAI ==
    /\ conversations \in PriorStores
    /\ NoRequestYet
    /\ grocy = StockedInventory

\* one request to /v1/chat/completions; the model's turns have at most one
\* block
NextOpenAI ==
    \E r \in Reqs :
        \/ \E msgs \in OpenAIBodies : OpenAIRequest(r, msgs)
        \/ CallModel(r) /\ OneBlockTurn(r)
        \/ CallModelRaises(r)
        \/ FinalAnswer(r)
        \/ BeginToolRound(r)
        \/ TextBlock(r)
        \/ CallTool(r)
        \/ ToolReturns(r)
        \/ EndRound(r)
        \/ Exhausted(r)
        \/ OpenAIReturn(r)
        \/ OpenAIError(r)

SpecOpenAI == InitOpenAI /\ [][NextOpenAI]_vars

\* the user and assistant entries of a body, by position
UserAndAssistant(msgs) == SelectSeq(msgs, IsUserOrAssistant)

\* the list handed to the first model call holds the body's user and
\* assistant entries, in their order, and nothing else
RunsOverUserAndAssistant(r) ==
    LET kept == UserAndAssistant(request[r].messages)
    IN /\ Len(prompt[r]) = Len(kept)
       /\ \A i \in 1..Len(kept) :
              /\ prompt[r][i].role = kept[i].role
              /\ prompt[r][i].content = kept[i].content

\* C15: the OpenAI-compatible completion endpoint is stateless: no step of
\* its handler changes the conversation store, whatever the outcome
\* (answer, exhaustion, error), and once the loop has called the model, the
\* list it was given is the request's user and assistant messages in their
\* order, system entries dropped
C15_CompletionEndpointStateless ==
    [][\A r \in Reqs :
          (Acts(r) /\ endpoint'[r] = "openai") =>
              /\ conversations' = conversations
              /\ (turns'[r] # <<>> \/ exc'[r] = "APIError")
                    => RunsOverUserAndAssistant(r)']_vars

\* a completion request with system entries was answered after a tool
\* round, while the store held a transcript
C15_Witness ==
    \E r \in Reqs :
        /\ endpoint[r] = "openai"
        /\ pc[r] = "replied" /\ http[r].kind = "chat.completion"
        /\ iteration[r] >= 1
        /\ Len(request[r].messages) > Len(prompt[r])
        /\ DEFAULT_ID \in DOMAIN conversations
        /\ Len(local[r]) > Len(prompt[r])

(* ------------------- the tool endpoint: POST /tools/execute ------------- *)

\* a declared parameter default, or a placeholder of execute_tool, is
\* written as its Python literal; a parameter the caller gave has the value
\* "supplied"
NoDefaults == [p \in {} |-> ""]

\* get_claude_tools(): per tool its name, the names of its properties, its
\* required list and the defaults its properties declare
Catalog ==
    << [name |-> "get_pantry_items", properties |-> {"category"},
        required |-> {}, default |-> [p \in {"category"} |-> "all"]],
       [name |-> "search_recipes_by_ingredients", properties |-> {"ingredients", "number"},
        required |-> {"ingredients"}, default |-> [p \in {"number"} |-> "3"]],
       [name |-> "get_recipe_details", properties |-> {"recipe_id"},
        required |-> {"recipe_id"}, default |-> NoDefaults],
       [name |-> "save_recipe", properties |-> {"recipe_name", "recipe_content"},
        required |-> {"recipe_name", "recipe_content"}, default |-> NoDefaults],
       [name |-> "list_recipes", properties |-> {},
        required |-> {}, default |-> NoDefaults],
       [name |-> "get_recipe", properties |-> {"recipe_name"},
        required |-> {"recipe_name"}, default |-> NoDefaults],
       [name |-> "get_product_info", properties |-> {"product_name"},
        required |-> {"product_name"}, default |-> NoDefaults],
       [name |-> "consume_stock", properties |-> {"product_name", "amount", "spoiled"},
        required |-> {"product_name", "amount"}, default |-> [p \in {"spoiled"} |-> "False"]],
       [name |-> "add_stock",
        properties |-> {"product_name", "amount", "best_before_date", "price"},
        required |-> {"product_name", "amount"}, default |-> NoDefaults],
       [name |-> "add_to_shopping_list", properties |-> {"product_name", "amount"},
        required |-> {"product_name"}, default |-> [p \in {"amount"} |-> "1"]],
       [name |-> "get_shopping_list", properties |-> {},
        required |-> {}, default |-> NoDefaults] >>

CatalogNames == {Catalog[i].name : i \in 1..Len(Catalog)}

\* the catalog's entry of a name of the catalog
CatalogEntry(name) == Catalog[CHOOSE i \in 1..Len(Catalog) : Catalog[i].name = name]

\* params.get(key, value)
Arg(key, value) == [param |-> key, default |-> value]

\* execute_tool's if/elif chain, in its order: the name compared, the
\* function called, and for each of its arguments the key read from the
\* parameters with the value params.get falls back to
Routes ==
    << [tool |-> "get_pantry_items", impl |-> "get_pantry_items",
        args |-> <<Arg("category", "all")>>],
       [tool |-> "save_recipe", impl |-> "save_recipe",
        args |-> <<Arg("recipe_name", ""), Arg("recipe_content", "")>>],
       [tool |-> "get_recipe", impl |-> "get_recipe",
        args |-> <<Arg("recipe_name", "")>>],
       [tool |-> "list_recipes", impl |-> "list_recipes", args |-> <<>>],
       [tool |-> "get_product_info", impl |-> "get_product_info",
        args |-> <<Arg("product_name", "")>>],
       [tool |-> "search_recipes_by_ingredients", impl |-> "search_recipes_by_ingredients",
        args |-> <<Arg("ingredients", ""), Arg("number", "5")>>],
       [tool |-> "get_recipe_details", impl |-> "get_recipe_details",
        args |-> <<Arg("recipe_id", "0")>>],
       [tool |-> "consume_stock", impl |-> "consume_stock",
        args |-> <<Arg("product_name", ""), Arg("amount", "0"), Arg("spoiled", "False")>>],
       [tool |-> "add_stock", impl |-> "add_stock",
        args |-> <<Arg("product_name", ""), Arg("amount", "0"),
                   Arg("best_before_date", "None"), Arg("price", "None")>>],
       [tool |-> "add_to_shopping_list", impl |-> "add_to_shopping_list",
        args |-> <<Arg("product_name", ""), Arg("amount", "1")>>],
       [tool |-> "get_shopping_list", impl |-> "get_shopping_list", args |-> <<>>] >>

\* dict.get
Get(params, key, value) == IF key \in DOMAIN params THEN params[key] ELSE value

\* the chain over a list of routes: the first route whose name equals
\* tool_name is taken and its function called with the arguments read from
\* params; with no such route HTTPException(400) is raised and nothing is
\* called
DispatchOver(routes, tool_name, params) ==
    LET hits == {i \in 1..Len(routes) : routes[i].tool = tool_name}
    IN IF hits = {}
       THEN [status |-> "400", raises |-> TRUE, detail |-> <<"Unknown tool: ", tool_name>>,
             called |-> <<>>]
       ELSE LET route == routes[CHOOSE i \in hits : \A j \in hits : i <= j]
            IN [status |-> "200", raises |-> FALSE,
                called |-> <<[impl |-> route.impl,
                             args |-> [k \in 1..Len(route.args) |->
                                          [name |-> route.args[k].param,
                                           value |-> Get(params, route.args[k].param,
                                                         route.args[k].default)]]]>>]

\* a variant of Dispatch: the chain ends one branch earlier
DispatchShort(tool_name, params) ==
    DispatchOver(SubSeq(Routes, 1, Len(Routes) - 1), tool_name, params)

\* execute_tool: the route and the call
Dispatch(tool_name, params) == DispatchOver(Routes, tool_name, params)

\* names no branch of the chain compares with
OtherToolNames == {"make_coffee", "get_chores_status", "GET_PANTRY_ITEMS", ""}

\* the bodies sent to /tools/execute: a tool of the catalog with any part of
\* its properties given, or another name, with or without a parameter
ToolRequests ==
    UNION { { [tool |-> Catalog[i].name, parameters |-> [p \in given |-> "supplied"]] :
                given \in SUBSET Catalog[i].properties } : i \in 1..Len(Catalog) }
    \cup { [tool |-> name, parameters |-> [p \in given |-> "supplied"]] :
               name \in OtherToolNames, given \in {{}, {"product_name"}} }

\* a POST /tools/execute arrives
ToolRequestArrives(req) ==
    /\ tool_request = NoToolRequest
    /\ tool_request' = req
    /\ UNCHANGED <<chatVars, tool_response, grocy, inv>>
    /\ UNCHANGED recipeVars

\* execute_tool runs on it
ExecuteTool ==
    /\ tool_request # NoToolRequest
    /\ tool_response = NoToolResponse
    /\ tool_response' = Dispatch(tool_request.tool, tool_request.parameters)
    /\ UNCHANGED <<chatVars, tool_request, grocy, inv>>
    /\ UNCHANGED recipeVars

NextExec ==
    \/ \E req \in ToolRequests : ToolRequestArrives(req)
    \/ ExecuteTool

SpecExec == Init /\ [][NextExec]_vars

\* execute_tool has answered
Executed == tool_response # NoToolResponse

\* C16: the tool endpoint answers with the 400 "Unknown tool: <name>" error
\* exactly for the names that are not in the catalog of get_claude_tools(),
\* calling no implementation then; every name of the catalog is routed to
\* the implementation of the same name
C16_UnknownExactlyOutsideCatalog ==
    Executed =>
        /\ tool_response.raises <=> tool_request.tool \notin CatalogNames
        /\ tool_response.raises =>
              /\ tool_response.status = "400"
              /\ tool_response.detail = <<"Unknown tool: ", tool_request.tool>>
              /\ tool_response.called = <<>>
        /\ ~tool_response.raises =>
              /\ Len(tool_response.called) = 1
              /\ tool_response.called[1].impl = tool_request.tool

\* a name that differs from a catalog name only by its case was refused
C16_Witness ==
    /\ Executed
    /\ tool_request.tool = "GET_PANTRY_ITEMS"
    /\ tool_response.raises

\* the value the implementation was called with for a parameter
CalledWith(param) ==
    LET args == tool_response.called[1].args
    IN args[CHOOSE k \in 1..Len(args) : args[k].name = param].value

\* C20: for every catalog tool and every optional parameter the catalog
\* declares a default for, executing the tool with that parameter omitted
\* calls the implementation with the declared default
C20_DeclaredDefaultsUsed ==
    (Executed /\ ~tool_response.raises) =>
        LET entry == CatalogEntry(tool_request.tool)
        IN \A p \in DOMAIN entry.default :
              p \notin DOMAIN tool_request.parameters => CalledWith(p) = entry.default[p]

(* ------------- the mutating inventory tools of pantry_tools ------------- *)

UpperCase ==
    <<"A", "B", "C", "D", "E", "F", "G", "H", "I", "J", "K", "L", "M",
      "N", "O", "P", "Q", "R", "S", "T", "U", "V", "W", "X", "Y", "Z">>
LowerCase ==
    <<"a", "b", "c", "d", "e", "f", "g", "h", "i", "j", "k", "l", "m",
      "n", "o", "p", "q", "r", "s", "t", "u", "v", "w", "x", "y", "z">>

\* str.lower() on one character
LowerChar(c) ==
    IF \E i \in 1..Len(UpperCase) : UpperCase[i] = c
    THEN LowerCase[CHOOSE i \in 1..Len(UpperCase) : UpperCase[i] = c]
    ELSE c

\* str.lower()
Lower(str) == [i \in 1..Len(str) |-> LowerChar(str[i])]

\* a in b, on two str
In(a, b) == \E i \in 0..(Len(b) - Len(a)) : SubSeq(b, i + 1, i + Len(a)) = a

RECURSIVE MatchesOf(_, _)
\* find_product_id_by_name's for loop: the products whose lowered name
\* contains the lowered product_name, in the order Grocy lists them
MatchesOf(product_name, products) ==
    IF products = <<>> THEN <<>>
    ELSE (IF In(Lower(product_name), Lower(Head(products)))
          THEN <<Head(products)>> ELSE <<>>)
         \o MatchesOf(product_name, Tail(products))

\* find_product_id_by_name: {"found": True, "matches"}, {"found": False,
\* "message"}, or, when the request to Grocy fails, {"error"}
find_product_id_by_name(product_name, products, answered) ==
    IF ~answered THEN [kind |-> "error", matches |-> <<>>]
    ELSE IF MatchesOf(product_name, products) # <<>>
    THEN [kind |-> "found", matches |-> MatchesOf(product_name, products)]
    ELSE [kind |-> "not_found", matches |-> <<>>]

\* the product names the tools are invoked with
SalmonText == <<"s", "a", "l", "m", "o", "n">>
CannedSalmonText == <<"c", "a", "n", "n", "e", "d", " ", "s", "a", "l", "m", "o", "n">>
RiceText == <<"R", "i", "c", "e">>
ProductTexts == {SalmonText, CannedSalmonText, RiceText}

MutatingTools == {"consume_stock", "add_stock", "add_to_shopping_list"}

NoSearch == [kind |-> "none", matches |-> <<>>]
NoReturn == [success |-> FALSE, error |-> "none", names |-> <<>>]

\* return {"success": False, "error": ...}
Failure(i, error, names) ==
    [i EXCEPT !.at = "done", !.ret = [success |-> FALSE, error |-> error, names |-> names]]

\* a variant of AfterLookup: add_stock treats a product that was not found
\* as the other two tools do
AfterLookupNoCreate(i, search) ==
    IF search.kind # "found"
    THEN Failure([i EXCEPT !.search = search],
                 IF i.at = "lookup" THEN "not_found" ELSE "created_not_found", <<>>)
    ELSE IF Len(search.matches) > 1
    THEN Failure([i EXCEPT !.search = search], "ambiguous", search.matches)
    ELSE [i EXCEPT !.search = search, !.at = "post"]

\* what the tool does with the result of a lookup: `if not
\* product_search.get("found")` (add_stock goes on to create the product at
\* its first lookup, and fails at its second), then `if len(matches) > 1`
AfterLookup(i, search) ==
    IF search.kind # "found"
    THEN IF i.tool = "add_stock" /\ i.at = "lookup"
         THEN [i EXCEPT !.search = search, !.at = "get_locations"]
         ELSE Failure([i EXCEPT !.search = search],
                      IF i.at = "lookup" THEN "not_found" ELSE "created_not_found", <<>>)
    ELSE IF Len(search.matches) > 1
    THEN Failure([i EXCEPT !.search = search], "ambiguous", search.matches)
    ELSE [i EXCEPT !.search = search, !.at = "post"]

\* a write request Grocy has applied
Write(op, target) == [op |-> op, target |-> target]

\* the inventory the tools start on: with or without the location "Pantry"
Inventories ==
    { StockedInventory,
      [products |-> <<Salmon, CannedSalmon>>, locations |-> <<>>, applied |-> <<>>] }

InitInventory ==
    /\ conversations = [c \in {} |-> <<>>]
    /\ NoRequestYet
    /\ grocy \in Inventories

\* execute_tool calls a mutating tool
InvokeTool(tool, product_name) ==
    /\ inv.at = "idle"
    /\ inv' = [at |-> "lookup", tool |-> tool, product_name |-> product_name,
               known |-> grocy.products, search |-> NoSearch, applied |-> <<>>,
               ret |-> NoReturn]
    /\ UNCHANGED <<chatVars, tool_request, tool_response, grocy>>
    /\ UNCHANGED recipeVars

\* await find_product_id_by_name(product_name) and the tests on its result
Lookup(answered) ==
    /\ inv.at \in {"lookup", "relookup"}
    /\ inv' = AfterLookup(inv, find_product_id_by_name(inv.product_name,
                                                        grocy.products, answered))
    /\ UNCHANGED <<chatVars, tool_request, tool_response, grocy>>
    /\ UNCHANGED recipeVars

\* create_product: await grocy_api("/objects/locations") and the search for
\* the location "Pantry" in the list, if a list was returned
GetLocations(answered) ==
    /\ inv.at = "get_locations"
    /\ LET location_id_found ==
               /\ answered
               /\ \E k \in 1..Len(grocy.locations) :
                      Lower(grocy.locations[k]) = Lower(Pantry)
       IN inv' = [inv EXCEPT !.at = IF location_id_found THEN "get_units"
                                    ELSE "post_location"]
    /\ UNCHANGED <<chatVars, tool_request, tool_response, grocy>>
    /\ UNCHANGED recipeVars

\* create_product: the location is created; the result is not looked at
PostLocation(answered) ==
    /\ inv.at = "post_location"
    /\ IF answered
       THEN /\ grocy' = [grocy EXCEPT !.locations = Append(@, Pantry),
                                      !.applied = Append(@, Write("create_location", Pantry))]
            /\ inv' = [inv EXCEPT !.at = "get_units",
                                  !.applied = Append(@, Write("create_location", Pantry))]
       ELSE /\ inv' = [inv EXCEPT !.at = "get_units"]
            /\ UNCHANGED grocy
    /\ UNCHANGED <<chatVars, tool_request, tool_response>>
    /\ UNCHANGED recipeVars

\* create_product: await grocy_api("/objects/quantity_units"); unit 1 is
\* used when the unit is not found
GetUnits ==
    /\ inv.at = "get_units"
    /\ inv' = [inv EXCEPT !.at = "post_product"]
    /\ UNCHANGED <<chatVars, tool_request, tool_response, grocy>>
    /\ UNCHANGED recipeVars

\* create_product: the product is created; on a failure create_product
\* returns it and add_stock returns "not found and could not be created"
PostProduct(answered) ==
    /\ inv.at = "post_product"
    /\ IF answered
       THEN /\ grocy' = [grocy EXCEPT !.products = Append(@, inv.product_name),
                                      !.applied = Append(@, Write("create_product", inv.product_name))]
            /\ inv' = [inv EXCEPT !.at = "post_initial_stock",
                                  !.applied = Append(@, Write("create_product", inv.product_name))]
       ELSE /\ inv' = Failure(inv, "not_created", <<>>)
            /\ UNCHANGED grocy
    /\ UNCHANGED <<chatVars, tool_request, tool_response>>
    /\ UNCHANGED recipeVars

\* create_product: the initial stock entry of amount 0; the result is not
\* looked at and create_product returns its success
PostInitialStock(answered) ==
    /\ inv.at = "post_initial_stock"
    /\ IF answered
       THEN /\ grocy' = [grocy EXCEPT
                            !.applied = Append(@, Write("initial_stock", inv.product_name))]
            /\ inv' = [inv EXCEPT !.at = "relookup",
                                  !.applied = Append(@, Write("initial_stock", inv.product_name))]
       ELSE /\ inv' = [inv EXCEPT !.at = "relookup"]
            /\ UNCHANGED grocy
    /\ UNCHANGED <<chatVars, tool_request, tool_response>>
    /\ UNCHANGED recipeVars

\* the tool's own request on the one product that matched: consume, add,
\* or add-to-shopping-list, and the payload returned
PostMutation(answered) ==
    /\ inv.at = "post"
    /\ LET product_exact_name == inv.search.matches[1]
       IN IF answered
          THEN /\ grocy' = [grocy EXCEPT
                               !.applied = Append(@, Write(inv.tool, product_exact_name))]
               /\ inv' = [inv EXCEPT
                             !.at = "done",
                             !.applied = Append(@, Write(inv.tool, product_exact_name)),
                             !.ret = [success |-> TRUE, product_name |-> product_exact_name]]
          ELSE /\ inv' = Failure(inv, "request_failed", <<>>)
               /\ UNCHANGED grocy
    /\ UNCHANGED <<chatVars, tool_request, tool_response>>
    /\ UNCHANGED recipeVars

NextInventory ==
    \/ \E tool \in MutatingTools, product_name \in ProductTexts :
           InvokeTool(tool, product_name)
    \/ \E answered \in BOOLEAN : Lookup(answered)
    \/ \E answered \in BOOLEAN : GetLocations(answered)
    \/ \E answered \in BOOLEAN : PostLocation(answered)
    \/ GetUnits
    \/ \E answered \in BOOLEAN : PostProduct(answered)
    \/ \E answered \in BOOLEAN : PostInitialStock(answered)
    \/ \E answered \in BOOLEAN : PostMutation(answered)

SpecInventory == InitInventory /\ [][NextInventory]_vars

\* the tool has returned
Returned == inv.at = "done"

\* the tool's last lookup found more than one product
FoundSeveral == inv.search.kind = "found" /\ Len(inv.search.matches) > 1

\* C17: for each mutating tool, when the case-insensitive substring match of
\* the product name finds more than one product, the tool returns an error
\* that lists the names of all candidates and sends no mutating request;
\* with products "Salmon" and "Canned Salmon", "salmon" is ambiguous and
\* "canned salmon" resolves to the single match "Canned Salmon"
C17_AmbiguousNeverMutates ==
    /\ MatchesOf(SalmonText, <<Salmon, CannedSalmon>>) = <<Salmon, CannedSalmon>>
    /\ MatchesOf(CannedSalmonText, <<Salmon, CannedSalmon>>) = <<CannedSalmon>>
    /\ (Returned /\ FoundSeveral) =>
          /\ ~inv.ret.success
          /\ inv.ret.error = "ambiguous"
          /\ inv.ret.names = MatchesOf(inv.product_name, grocy.products)
          /\ inv.applied = <<>>

\* the product name matched none of the products known when the tool was
\* invoked
MatchedNone == MatchesOf(inv.product_name, inv.known) = <<>>

\* C18: for each mutating tool, when the product name matches zero known
\* products, the tool returns a not-found error and performs no write
C18_NotFoundNeverWrites ==
    (Returned /\ MatchedNone) =>
        /\ ~inv.ret.success
        /\ inv.ret.error = "not_found"
        /\ inv.applied = <<>>

\* C18, amended: when the product name matches zero known products,
\* consume_stock and add_to_shopping_list return a not-found error and
\* perform no write; add_stock creates a product of that name instead and
\* adds the stock to it: its success reports the created product, and its
\* failures are those of the creation, of the second lookup or of the stock
\* request, never a not-found error
C18_OnlyAddStockCreates ==
    (Returned /\ MatchedNone) =>
        /\ inv.tool \in {"consume_stock", "add_to_shopping_list"} =>
              /\ ~inv.ret.success
              /\ inv.ret.error = "not_found"
              /\ inv.applied = <<>>
        /\ inv.tool = "add_stock" =>
              IF inv.ret.success
              THEN /\ inv.ret.product_name = inv.product_name
                   /\ \E k \in 1..Len(inv.applied) :
                          inv.applied[k] = Write("create_product", inv.product_name)
                   /\ inv.applied[Len(inv.applied)] = Write("add_stock", inv.product_name)
              ELSE inv.ret.error \in {"not_created", "created_not_found", "request_failed"}

\* add_stock was given a name no product matched, created the product and
\* added the stock
C18_Witness ==
    /\ Returned /\ MatchedNone
    /\ inv.tool = "add_stock"
    /\ inv.ret.success
    /\ Len(grocy.products) > Len(inv.known)

\* C19: a mutating tool invocation is never left half-applied: whenever
\* add_stock, consume_stock or add_to_shopping_list returns a failure, no
\* write request of that invocation has been applied to the inventory
C19_FailureMeansNoWrite ==
    (Returned /\ ~inv.ret.success) => inv.applied = <<>>

\* the required parameters of the requested catalog tool that the request
\* does not give
MissingRequired ==
    CatalogEntry(tool_request.tool).required \ DOMAIN tool_request.parameters

\* C21: executing a tool with one of its required parameters missing is
\* rejected with an error and the tool's implementation is not called: a
\* required field is never replaced by a placeholder value
C21_MissingRequiredRejected ==
    (/\ Executed
     /\ tool_request.tool \in CatalogNames
     /\ MissingRequired # {})
        => /\ tool_response.raises
           /\ tool_response.called = <<>>

(* --------------------- search_recipes_by_ingredients -------------------- *)

\* what findByIngredients may answer: up to MaxRecipes recipes, each with
\* the number of its used and of its missed ingredients; a recipe's id is
\* its position in the answer
SourceAnswers ==
    UNION { [1..n -> [used : 0..MaxCount, missed : 0..MaxCount]] : n \in 0..MaxRecipes }

\* round(num / den * 100, 1), in tenths of a percent: the nearest tenth, and
\* the even one when num / den * 1000 lies halfway between two
RoundTenths(num, den) ==
    LET q == (1000 * num) \div den
        rem == (1000 * num) % den
    IN IF 2 * rem > den THEN q + 1
       ELSE IF 2 * rem < den THEN q
       ELSE IF q % 2 = 0 THEN q ELSE q + 1

\* a variant of match_percentage: a recipe with no ingredient at all counts
\* as a full match
match_percentage_full(used_count, missed_count) ==
    IF used_count + missed_count > 0
    THEN RoundTenths(used_count, used_count + missed_count)
    ELSE 1000

\* match_percentage = round((used_count / total_ingredients * 100)
\*                          if total_ingredients > 0 else 0, 1)
match_percentage(used_count, missed_count) ==
    IF used_count + missed_count > 0
    THEN RoundTenths(used_count, used_count + missed_count)
    ELSE 0

\* the for loop that builds `simplified`
Simplified(recipes) ==
    [i \in 1..Len(recipes) |->
        [id |-> i,
         usedIngredients |-> recipes[i].used,
         matchPercentage |-> match_percentage(recipes[i].used, recipes[i].missed),
         missedIngredients |-> recipes[i].missed]]

\* a variant of RankByMatch: among the entries of equal percentage the
\* later one comes first
RankTiesReversed(list, i) ==
    1 + Cardinality({j \in 1..Len(list) :
                        \/ list[j].matchPercentage > list[i].matchPercentage
                        \/ /\ list[j].matchPercentage = list[i].matchPercentage
                           /\ j > i})

\* where list.sort(key=matchPercentage, reverse=True) puts entry i: after
\* the entries of a higher key and, the sort being stable, after the earlier
\* entries of the same key
RankByMatch(list, i) ==
    1 + Cardinality({j \in 1..Len(list) :
                        \/ list[j].matchPercentage > list[i].matchPercentage
                        \/ /\ list[j].matchPercentage = list[i].matchPercentage
                           /\ j < i})

\* simplified.sort(key=lambda x: x["matchPercentage"], reverse=True)
SortByMatch(list) ==
    [k \in 1..Len(list) |->
        list[CHOOSE i \in 1..Len(list) : RankByMatch(list, i) = k]]

\* what a search meets: no API key, a failed request, or an answer
SearchOutcomes == {"ok", "no_api_key", "request_failed"}

\* search_recipes_by_ingredients: the error payloads, or the source's
\* answer simplified and sorted
SearchRecipes ==
    /\ search_result = NoSearchResult
    /\ \E outcome \in SearchOutcomes :
          IF outcome = "ok"
          THEN \E answer \in SourceAnswers :
                  search_result' =
                      [state |-> "ok", source |-> answer,
                       recipes |-> SortByMatch(Simplified(answer))]
          ELSE search_result' = [state |-> outcome, source |-> <<>>, recipes |-> <<>>]
    /\ UNCHANGED <<chatVars, tool_request, tool_response, grocy, inv,
                   recipe_dir, recipe_io>>

NextSearch == SearchRecipes

SpecSearch == Init /\ [][NextSearch]_vars

\* the recipes of the payload
Found == IF search_result.state = "ok" THEN search_result.recipes ELSE <<>>

\* C22: the match percentage is 0 when used + missed = 0, is 100.0 when
\* missed = 0 and used > 0, and is non-decreasing in used for a fixed missed
\* (in tenths of a percent: 100.0 is 1000)
C22_MatchPercentageLaw ==
    \A i \in 1..Len(Found) :
        /\ (Found[i].usedIngredients + Found[i].missedIngredients = 0)
              => Found[i].matchPercentage = 0
        /\ (Found[i].missedIngredients = 0 /\ Found[i].usedIngredients > 0)
              => Found[i].matchPercentage = 1000
        /\ \A j \in 1..Len(Found) :
              (/\ Found[i].missedIngredients = Found[j].missedIngredients
               /\ Found[i].usedIngredients <= Found[j].usedIngredients)
                  => Found[i].matchPercentage <= Found[j].matchPercentage

\* a search returned a recipe with no ingredient, a recipe that misses
\* nothing, and one whose percentage had to be rounded
C22_Witness ==
    /\ Len(Found) = 3
    /\ \E i \in 1..3 : Found[i].usedIngredients + Found[i].missedIngredients = 0
    /\ \E i \in 1..3 : Found[i].missedIngredients = 0 /\ Found[i].usedIngredients > 0
    /\ \E i \in 1..3 : Found[i].matchPercentage = 667

\* C26: the recipes returned are sorted by match percentage in descending
\* order, and recipes of equal percentage keep the relative order in which
\* the source returned them; every recipe of the source is returned once
C26_SortedDescendingStable ==
    search_result.state = "ok" =>
        /\ Len(Found) = Len(search_result.source)
        /\ {Found[i].id : i \in 1..Len(Found)} = 1..Len(search_result.source)
        /\ \A i, j \in 1..Len(Found) :
              i < j =>
                 /\ Found[i].matchPercentage >= Found[j].matchPercentage
                 /\ Found[i].matchPercentage = Found[j].matchPercentage
                       => Found[i].id < Found[j].id

\* the source returned a low match first and then two equal higher ones
C26_Witness ==
    /\ Len(Found) = 3
    /\ Found[1].id = 2 /\ Found[2].id = 3 /\ Found[3].id = 1
    /\ Found[1].matchPercentage = Found[2].matchPercentage
    /\ Found[1].usedIngredients # Found[2].usedIngredients

(* ------------------ the transcript while a round runs ------------------ *)

\* the assistant message of a model turn: its blocks in emission order
TurnMessage(turn) == ListMessage("assistant", turn.content)

\* a tool of the round of request r is running
ToolRunning(r) == pc[r] = "tool_await"

\* C23: at every moment a tool is running, the transcript already holds,
\* as its last message, the full assistant turn that asked for it
C23_TurnStoredBeforeTools ==
    \A r \in Reqs :
        ToolRunning(r) =>
            /\ messages(r) # <<>>
            /\ messages(r)[Len(messages(r))] = TurnMessage(response[r])

\* the ids of the tool_use blocks of a list of blocks
ToolUseIds(items) ==
    {items[k].id : k \in {j \in 1..Len(items) : IsToolUse(items[j])}}

\* message i of transcript conv is an assistant message made of blocks
IsTurnMessage(conv, i) ==
    /\ i >= 1
    /\ conv[i].role = "assistant"
    /\ conv[i].content.type = "list"

\* C24: in every stored transcript, each tool_result of a user message
\* references the id of a tool_use block of the message immediately before
\* it, which is an assistant message: there is no orphan tool outcome
C24_NoOrphanOutcome ==
    \A c \in DOMAIN conversations :
        \A i \in 1..Len(conversations[c]) :
            IsResultsMessage(conversations[c][i]) =>
                /\ IsTurnMessage(conversations[c], i - 1)
                /\ \A k \in 1..Len(conversations[c][i].content.items) :
                      conversations[c][i].content.items[k].tool_use_id
                          \in ToolUseIds(conversations[c][i - 1].content.items)

\* two requests on one id have each stored a round with a tool outcome
C24_Witness ==
    \E c \in DOMAIN conversations :
        \E i, j \in 1..Len(conversations[c]) :
            /\ i < j
            /\ IsResultsMessage(conversations[c][i])
            /\ IsResultsMessage(conversations[c][j])
            /\ conversations[c][i].content.items # <<>>
            /\ conversations[c][j].content.items # <<>>
            /\ conv_id["r1"] = c /\ conv_id["r2"] = c
            /\ tool_results["r1"] # <<>> /\ tool_results["r2"] # <<>>

(* ------------------------- the store over time ------------------------- *)

\* sequence a is the beginning of sequence b
IsPrefix(a, b) == Len(a) <= Len(b) /\ SubSeq(b, 1, Len(a)) = a

\* C25: the store is append-only: over every step, the transcript stored
\* for an id before the step is a prefix of the one stored after it
C25_AppendOnly ==
    [][\A c \in DOMAIN conversations :
          /\ c \in DOMAIN conversations'
          /\ IsPrefix(conversations[c], conversations'[c])]_vars

\* a request that failed and a request that was answered have both written
\* to the transcript of one id
C25_Witness ==
    \E r, q \in AllReqs :
        /\ r # q
        /\ conv_id[r] = conv_id[q]
        /\ http[r].kind = "error"
        /\ http[q].kind = "ok"
        /\ turns[q] # <<>>
        /\ Len(conversations[conv_id[q]]) >= 4

\* a transcript that starts with a user message and in which no two
\* consecutive messages have the same role
Alternates(ms) ==
    ms # <<>> =>
        /\ ms[1].role = "user"
        /\ \A i \in 1..(Len(ms) - 1) : ms[i].role # ms[i + 1].role

\* request r is at the loop's head, about to pass its list to the model
AboutToCallModel(r) ==
    /\ endpoint[r] = "chat"
    /\ pc[r] = "call_model"
    /\ iteration[r] < max_iterations

\* C27: on every model call made by /chat, whatever requests came earlier
\* on the id, the transcript passed to the model starts with a user message
\* and strictly alternates user and assistant
C27_PromptAlternates ==
    \A r \in AllReqs : AboutToCallModel(r) => Alternates(messages(r))

(* ------------------- add_stock after a failed lookup ------------------- *)

\* add_stock has just created the product and has not searched for it again
Created ==
    /\ inv.at = "post_initial_stock"
    /\ inv.tool = "add_stock"

\* C28: add_stock creates a product only when the lookup succeeded and
\* matched nothing; when the lookup itself failed, add_stock creates
\* nothing and performs no other write
C28_NoCreationAfterFailedLookup ==
    /\ Created => inv.search.kind = "not_found"
    /\ (/\ inv.at # "idle"
        /\ inv.tool = "add_stock"
        /\ inv.search.kind = "error") => inv.applied = <<>>

(* ----------------------- rounds without a tool ------------------------- *)

\* request r has just finished a round of the loop
RoundOver(r) == pc[r] = "call_model" /\ iteration[r] > 0

\* C29: every tool results message the loop appends carries at least one
\* tool result, and every round that sets tool_used has executed at least
\* one tool of its turn
C29_NoEmptyResultsMessage ==
    /\ \A c \in DOMAIN conversations :
          \A i \in 1..Len(conversations[c]) :
              IsResultsMessage(conversations[c][i]) =>
                  conversations[c][i].content.items # <<>>
    /\ \A r \in Reqs :
          RoundOver(r) =>
              /\ tool_used[r]
              /\ \E k \in 1..Len(LastTurn(r).content) :
                    /\ IsToolUse(LastTurn(r).content[k])
                    /\ TimesExecuted(LastTurn(r).content[k].id) >= 1

(* --------------------------- recipe files ------------------------------ *)

\* the recipe names the tools are called with, as sequences of characters
RecipeNames ==
    { <<"S", "o", "u", "p">>,
      <<"s", "o", "u", "p", ".", "t", "x", "t">>,
      <<"M", "a", "c", " ", "P", "i", "e">>,
      <<"M", "a", "c", "/", "P", "i", "e">> }

\* the recipe texts
RecipeContents == { <<"b", "o", "i", "l">>, <<"b", "a", "k", "e">> }

TxtSuffix == <<".", "t", "x", "t">>

\* str.replace(old, new), for one-character old and new
Replace(str, old, new) ==
    [i \in 1..Len(str) |-> IF str[i] = old THEN new ELSE str[i]]

\* str.endswith(suffix)
EndsWith(str, suffix) ==
    /\ Len(str) >= Len(suffix)
    /\ SubSeq(str, Len(str) - Len(suffix) + 1, Len(str)) = suffix

\* `if not safe_name.endswith(".txt"): safe_name += ".txt"`
WithTxt(safe_name) ==
    IF EndsWith(safe_name, TxtSuffix) THEN safe_name ELSE safe_name \o TxtSuffix

\* save_recipe's safe_name
SaveSafeName(recipe_name) ==
    WithTxt(Replace(Replace(Lower(recipe_name), " ", "_"), "/", "_"))

\* get_recipe's safe_name
GetSafeName(recipe_name) ==
    WithTxt(Replace(Lower(recipe_name), " ", "_"))

IsAlpha(c) ==
    \E i \in 1..Len(UpperCase) : UpperCase[i] = c \/ LowerCase[i] = c

\* str.upper() on one character
UpperChar(c) ==
    IF \E i \in 1..Len(LowerCase) : LowerCase[i] = c
    THEN UpperCase[CHOOSE i \in 1..Len(LowerCase) : LowerCase[i] = c]
    ELSE c

\* str.title(): the first letter of every run of letters in upper case,
\* the other letters in lower case
Title(str) ==
    [i \in 1..Len(str) |->
        IF i = 1 \/ ~IsAlpha(str[i - 1]) THEN UpperChar(str[i]) ELSE LowerChar(str[i])]

\* datetime.now().strftime(...): one token of the file's text
Timestamp == "%Y-%m-%d %H:%M:%S"

\* save_recipe's full_content: the three header lines, an empty line, the
\* recipe text and a newline
FullContent(recipe_name, recipe_content) ==
    <<"# ">> \o Title(recipe_name)
        \o <<"\n", "# Created: ", Timestamp, "\n", "# Source: PantryBot", "\n", "\n">>
        \o recipe_content \o <<"\n">>

\* Path.stem of a file of RECIPE_DIR.glob("*.txt")
Stem(path) == SubSeq(path, 1, Len(path) - Len(TxtSuffix))

\* get_recipe's available_recipes; glob lists the files in no given order
Available ==
    {Title(Replace(Stem(path), "_", " ")) :
        path \in {p \in DOMAIN recipe_dir : EndsWith(p, TxtSuffix)}}

\* save_recipe: the file RECIPE_DIR / safe_name is written, or the write
\* raises and the failure payload is returned
SaveRecipe(recipe_name, recipe_content, written) ==
    /\ LET safe_name == SaveSafeName(recipe_name)
       IN /\ recipe_dir' =
                 IF written
                 THEN [p \in DOMAIN recipe_dir \cup {safe_name} |->
                          IF p = safe_name
                          THEN FullContent(recipe_name, recipe_content)
                          ELSE recipe_dir[p]]
                 ELSE recipe_dir
          /\ recipe_io' =
                 [saved |-> [state |-> IF written THEN "ok" ELSE "failed",
                             recipe_name |-> recipe_name,
                             recipe_content |-> recipe_content,
                             file_path |-> safe_name],
                  got |-> [state |-> "none"]]
    /\ UNCHANGED <<chatVars, tool_request, tool_response, grocy, inv, search_result>>

\* get_recipe: the file RECIPE_DIR / safe_name is read if it exists; a
\* safe_name with a "/" names a file of a subdirectory, and RECIPE_DIR has
\* none
GetRecipe(recipe_name, readable) ==
    /\ recipe_io.got.state = "none"
    /\ LET safe_name == GetSafeName(recipe_name)
       IN recipe_io' =
              [recipe_io EXCEPT !.got =
                  IF ~readable
                  THEN [state |-> "failed", recipe_name |-> recipe_name]
                  ELSE IF safe_name \in DOMAIN recipe_dir
                  THEN [state |-> "ok", recipe_name |-> recipe_name,
                        content |-> recipe_dir[safe_name]]
                  ELSE [state |-> "not_found", recipe_name |-> recipe_name,
                        available_recipes |-> Available]]
    /\ UNCHANGED <<chatVars, tool_request, tool_response, grocy, inv, search_result>>
    /\ UNCHANGED recipe_dir

NextRecipes ==
    \/ \E recipe_name \in RecipeNames, recipe_content \in RecipeContents,
          written \in BOOLEAN :
           SaveRecipe(recipe_name, recipe_content, written)
    \/ \E recipe_name \in RecipeNames, readable \in BOOLEAN :
           GetRecipe(recipe_name, readable)

SpecRecipes == Init /\ [][NextRecipes]_vars

\* the last save_recipe succeeded and get_recipe was then called with the
\* same name and returned a payload of its own (the read did not raise)
ReadBack ==
    /\ recipe_io.saved.state = "ok"
    /\ recipe_io.got.state \in {"ok", "not_found"}
    /\ recipe_io.got.recipe_name = recipe_io.saved.recipe_name

\* C30: saving then reading a recipe round-trips: after save_recipe(n, c)
\* succeeded, get_recipe(n) succeeds and its content contains c
C30_SaveThenGetRoundTrips ==
    ReadBack =>
        /\ recipe_io.got.state = "ok"
        /\ In(recipe_io.saved.recipe_content, recipe_io.got.content)

====
